---- MODULE Spec2Model ----
(***************************************************************************)
(* Model of WeatherAPI (yearly_weather_statistics_using_openmeteo.py):     *)
(* get_yearly_precipitation builds one request for the whole year range,   *)
(* calls the archive API once, slices the returned daily series into one   *)
(* window per year and reduces each window to sum / mean / min / max.      *)
(*                                                                         *)
(* Units.  Timestamps are whole minutes instead of whole seconds (every    *)
(* timestamp the program builds is a local midnight, a multiple of 60 s),  *)
(* so that they stay inside TLC's integers.  Daily values are whole        *)
(* numbers (float32 arithmetic on them is exact); the not-a-number value   *)
(* is the sentinel NaN.  A mean is kept as the fraction num/den.           *)
(***************************************************************************)
EXTENDS Integers, Sequences, FiniteSets, TLC

VARIABLES
    pc,         \* position of the call: idle, request, loop, returned, raised
    tz,         \* local time zone of the process (read by datetime.timestamp)
    packet,     \* the request parameters built by get_yearly_precipitation
    dates,      \* __process_dates' list of (Jan 1, Dec 31) timestamps
    response,   \* outcome of weather_api: "none", "ok", "exception"
    precip,     \* daily.Variables(0).ValuesAsNumpy()
    last_ind,   \* the cursor into precip
    i,          \* the loop variable of the reduce loop
    df_data,    \* the five column lists being filled
    result,     \* the DataFrame handed back to the caller
    error,      \* the exception leaving get_yearly_precipitation, or "none"
    apiCalls,   \* number of weather_api invocations made by the current call
    windows     \* history of the slices taken: [lo, hi, days, year]

vars == <<pc, tz, packet, dates, response, precip, last_ind, i, df_data,
          result, error, apiCalls, windows>>

(***************************************************************************)
(* Bounds of the model.                                                    *)
(***************************************************************************)
\* longest year range a call asks for
MaxSpan == 3
\* most days a response may lack at its end
MaxMissing == 1
\* most surplus days a response may carry at its end
MaxExtra == 1

\* first years of the ranges explored: around 1900 (no leap year), around
\* 2000 (leap year by the 400 rule), 2020 (leap year by the 4 rule)
YearStarts == {1899, 2000, 2020}

\* (longitude, latitude) in hundredths of a degree; Berlin, as in the notebook
Coordinates == {<<1341, 5252>>}

(***************************************************************************)
(* Calendar arithmetic of datetime / pandas.                               *)
(***************************************************************************)
MinutesPerDay == 1440
EpochOrdinal == 719163
NaN == -1

is_leap(y) == y % 4 = 0 /\ (y % 100 # 0 \/ y % 400 = 0)

days_in_year(y) == IF is_leap(y) THEN 366 ELSE 365

\* number of days before January 1 of year y (proleptic Gregorian ordinal)
days_before_year(y) ==
    LET p == y - 1 IN 365 * p + (p \div 4) - (p \div 100) + (p \div 400)

\* a time zone: offset east of UTC in minutes, with at most one permanent
\* change of the offset, taking effect in the middle of changeYear
TimeZones ==
    { [base |-> 0,  changeYear |-> 0,    delta |-> 0],      \* UTC
      [base |-> 60, changeYear |-> 0,    delta |-> 0],      \* fixed winter offset
      [base |-> 0,  changeYear |-> 2000, delta |-> -60] }   \* offset lowered during 2000

utcoffset(zone, y, decemberSide) ==
    zone.base +
    (IF zone.changeYear # 0 /\
        (y > zone.changeYear \/ (y = zone.changeYear /\ decemberSide))
     THEN zone.delta ELSE 0)

\* int(datetime.strptime(..., "%m/%d/%Y").timestamp()): local midnight of the
\* day with the given ordinal-in-year, as minutes since the epoch
timestamp(zone, y, dayOfYear, decemberSide) ==
    (days_before_year(y) + dayOfYear - EpochOrdinal) * MinutesPerDay
        - utcoffset(zone, y, decemberSide)

process_dates(zone, year_start, year_end) ==
    [k \in 1..(IF year_end >= year_start THEN year_end - year_start + 1 ELSE 0) |->
        LET y == year_start + k - 1 IN
        << timestamp(zone, y, 1, FALSE),
           timestamp(zone, y, days_in_year(y), TRUE) >>]

\* len(pd.date_range(start, end, freq, inclusive="left")): the points
\* start, start+freq, ... that are <= end, without the point equal to end
date_range_len(start, end, freq) ==
    IF end < start THEN 0
    ELSE LET n == ((end - start) \div freq) + 1
         IN  IF (end - start) % freq = 0 THEN n - 1 ELSE n

\* a variant that stops one year early
loop_count_exclusive(start_year, end_year) ==
    IF end_year - start_year > 0 THEN end_year - start_year ELSE 0

\* range(0, end_year - start_year + 1)
loop_count(start_year, end_year) ==
    IF end_year - start_year + 1 > 0 THEN end_year - start_year + 1 ELSE 0

(***************************************************************************)
(* numpy slicing and reductions.                                           *)
(***************************************************************************)
Min2(a, b) == IF a <= b THEN a ELSE b
Max2(a, b) == IF a >= b THEN a ELSE b

\* a[lo:hi] for 0 <= lo <= hi (indices clamp to the array)
slice(a, lo, hi) ==
    IF lo >= Len(a) THEN << >> ELSE SubSeq(a, lo + 1, Min2(hi, Len(a)))

has_nan(a) == \E k \in 1..Len(a) : a[k] = NaN

\* the reductions split the index range lo..hi in halves (numpy's add.reduce
\* sums pairwise; for min and max the grouping does not matter)
RECURSIVE add_reduce(_, _, _)
add_reduce(a, lo, hi) ==
    IF lo > hi THEN 0
    ELSE IF lo = hi THEN a[lo]
    ELSE LET mid == (lo + hi) \div 2
         IN  add_reduce(a, lo, mid) + add_reduce(a, mid + 1, hi)

RECURSIVE min_reduce(_, _, _)
min_reduce(a, lo, hi) ==
    IF lo = hi THEN a[lo]
    ELSE LET mid == (lo + hi) \div 2
         IN  Min2(min_reduce(a, lo, mid), min_reduce(a, mid + 1, hi))

RECURSIVE max_reduce(_, _, _)
max_reduce(a, lo, hi) ==
    IF lo = hi THEN a[lo]
    ELSE LET mid == (lo + hi) \div 2
         IN  Max2(max_reduce(a, lo, mid), max_reduce(a, mid + 1, hi))

\* years_data.sum(): 0.0 for an empty array, nan as soon as one value is nan
np_sum(a) == IF has_nan(a) THEN NaN ELSE add_reduce(a, 1, Len(a))

NaNMean == [num |-> 0, den |-> 0]

\* a variant that divides by a fixed year length
np_mean_fixed_year(a) ==
    IF Len(a) = 0 \/ has_nan(a) THEN NaNMean
    ELSE [num |-> add_reduce(a, 1, Len(a)), den |-> 365]

\* np.mean(years_data): sum / len; nan (0/0, with a warning) for an empty array
np_mean(a) ==
    IF Len(a) = 0 \/ has_nan(a) THEN NaNMean
    ELSE [num |-> add_reduce(a, 1, Len(a)), den |-> Len(a)]

\* np.min / np.max of a non-empty array (an empty one raises ValueError)
np_min(a) == IF has_nan(a) THEN NaN ELSE min_reduce(a, 1, Len(a))
np_max(a) == IF has_nan(a) THEN NaN ELSE max_reduce(a, 1, Len(a))

(***************************************************************************)
(* The responses of the archive API explored by the model.                 *)
(***************************************************************************)
\* calendar days from Jan 1 of year a to Dec 31 of year b
span_days(a, b) ==
    IF b < a THEN 0 ELSE days_before_year(b + 1) - days_before_year(a)

\* series lengths: the span up to the end of some year of the range (none,
\* ..., all of them), a few days short or long
ResponseLengths(year_start, year_end) ==
    { n \in { span_days(year_start, e) + d :
                e \in (year_start - 1)..Max2(year_end, year_start - 1),
                d \in (0 - MaxMissing)..MaxExtra } : n >= 0 }

\* 1-based positions of one missing reading: the first day, the 60th day and
\* the last day of each requested year
NaNPositions(year_start, year_end) ==
    { span_days(year_start, y - 1) + d :
        y \in year_start..year_end, d \in {1, 60, 365, 366} }

ResponseShapes(year_start, year_end, n) ==
    { [base |-> "ones",  nan |-> 0], [base |-> "index", nan |-> 0] } \cup
    { [base |-> "ones",  nan |-> p] :
        p \in { q \in NaNPositions(year_start, year_end) : q <= n } }

ValuesAsNumpy(n, shape) ==
    [k \in 1..n |-> IF k = shape.nan THEN NaN
                    ELSE IF shape.base = "ones" THEN 1 ELSE k]

(***************************************************************************)
(* State of a WeatherAPI object between calls.                             *)
(***************************************************************************)
NoPacket ==
    [latitude |-> 0, longitude |-> 0, year_start |-> 0, year_end |-> 0,
     daily |-> "", start_date |-> <<0, 0, 0>>, end_date |-> <<0, 0, 0>>]

EmptyColumns ==
    [year |-> << >>, precipitation_sum |-> << >>,
     precipitation_daily_avg |-> << >>, precipitation_min |-> << >>,
     precipitation_max |-> << >>]

ColumnNames ==
    << "year", "precipitation_sum", "precipitation_daily_avg",
       "precipitation_min", "precipitation_max" >>

\* pd.DataFrame(): no columns, no rows
EmptyDataFrame == [columns |-> << >>, rows |-> << >>]

\* pd.DataFrame(data=df_data): one row per entry of the column lists
DataFrame(data) ==
    [columns |-> ColumnNames,
     rows |-> [k \in 1..Len(data.year) |->
                [year |-> data.year[k],
                 precipitation_sum |-> data.precipitation_sum[k],
                 precipitation_daily_avg |-> data.precipitation_daily_avg[k],
                 precipitation_min |-> data.precipitation_min[k],
                 precipitation_max |-> data.precipitation_max[k]]]]

Init ==
    /\ pc = "idle"
    /\ tz \in TimeZones
    /\ packet = NoPacket
    /\ dates = << >>
    /\ response = "none"
    /\ precip = << >>
    /\ last_ind = 0
    /\ i = 0
    /\ df_data = EmptyColumns
    /\ result = EmptyDataFrame
    /\ error = "none"
    /\ apiCalls = 0
    /\ windows = << >>

(***************************************************************************)
(* get_yearly_precipitation -> __send_request, up to the API call.         *)
(***************************************************************************)
\* the packet is built, the boundary pairs are computed, the request dates
\* are set; nothing looks at the order of year_start and year_end
send_request_prologue(year_start, year_end, long_lat) ==
    /\ packet' = [latitude |-> long_lat[2],
                  longitude |-> long_lat[1],
                  year_start |-> year_start,
                  year_end |-> year_end,
                  daily |-> "precipitation_sum",
                  start_date |-> <<year_start, 1, 1>>,
                  end_date |-> <<year_end, 12, 31>>]
    /\ dates' = process_dates(tz, year_start, year_end)
    /\ response' = "none"
    /\ precip' = << >>
    /\ last_ind' = 0
    /\ i' = 0
    /\ df_data' = EmptyColumns
    /\ result' = EmptyDataFrame
    /\ error' = "none"
    /\ apiCalls' = 0
    /\ windows' = << >>
    /\ pc' = "request"
    /\ UNCHANGED tz

\* a variant that rejects an inverted range before anything is requested
get_yearly_precipitation_validating ==
    /\ pc \in {"idle", "returned", "raised"}
    /\ \E year_start \in YearStarts,
          long_lat \in Coordinates :
       \E year_end \in (year_start - 1)..(year_start + MaxSpan - 1) :
          IF year_start > year_end
          THEN /\ packet' = [NoPacket EXCEPT !.year_start = year_start,
                                             !.year_end = year_end]
               /\ dates' = << >>
               /\ response' = "none"
               /\ precip' = << >>
               /\ last_ind' = 0
               /\ i' = 0
               /\ df_data' = EmptyColumns
               /\ result' = EmptyDataFrame
               /\ error' = "InvalidRange"
               /\ apiCalls' = 0
               /\ windows' = << >>
               /\ pc' = "raised"
               /\ UNCHANGED tz
          ELSE send_request_prologue(year_start, year_end, long_lat)

get_yearly_precipitation ==
    /\ pc \in {"idle", "returned", "raised"}
    /\ \E year_start \in YearStarts,
          long_lat \in Coordinates :
       \E year_end \in (year_start - 1)..(year_start + MaxSpan - 1) :
          send_request_prologue(year_start, year_end, long_lat)

\* self.OpenMeteo.weather_api(...)[0] returns; the daily values are read
weather_api ==
    /\ pc = "request"
    /\ apiCalls' = apiCalls + 1
    /\ response' = "ok"
    /\ \E n \in ResponseLengths(packet.year_start, packet.year_end) :
       \E shape \in ResponseShapes(packet.year_start, packet.year_end, n) :
          precip' = ValuesAsNumpy(n, shape)
    /\ last_ind' = 0
    /\ df_data' = EmptyColumns
    /\ i' = 0
    /\ pc' = "loop"
    /\ UNCHANGED <<tz, packet, dates, result, error, windows>>

\* a variant that lets the exception leave the call as a failure
weather_api_exception_raised ==
    /\ pc = "request"
    /\ apiCalls' = apiCalls + 1
    /\ response' = "exception"
    /\ error' = "FetchFailed"
    /\ pc' = "raised"
    /\ UNCHANGED <<tz, packet, dates, precip, last_ind, i, df_data, result, windows>>

\* a variant that asks the API once more before giving up
weather_api_exception_retried ==
    /\ pc = "request"
    /\ apiCalls' = apiCalls + 1
    /\ response' = "exception"
    /\ result' = EmptyDataFrame
    /\ pc' = IF apiCalls = 0 THEN "request" ELSE "returned"
    /\ UNCHANGED <<tz, packet, dates, precip, last_ind, i, df_data, error, windows>>

\* weather_api raises: the except clause returns the empty DataFrame
weather_api_exception ==
    /\ pc = "request"
    /\ apiCalls' = apiCalls + 1
    /\ response' = "exception"
    /\ result' = EmptyDataFrame
    /\ pc' = "returned"
    /\ UNCHANGED <<tz, packet, dates, precip, last_ind, i, df_data, error, windows>>

\* the window length of iteration k (0-based), from the k-th boundary pair
days_of(k) == date_range_len(dates[k + 1][1], dates[k + 1][2], MinutesPerDay)

\* one iteration of the reduce loop whose window is not empty
loop_body ==
    /\ pc = "loop"
    /\ i < loop_count(packet.year_start, packet.year_end)
    /\ LET days == days_of(i)
           years_data == slice(precip, last_ind, days + last_ind)
       IN  /\ Len(years_data) > 0
           /\ df_data' =
                [year |-> Append(df_data.year, i + packet.year_start),
                 precipitation_sum |->
                    Append(df_data.precipitation_sum, np_sum(years_data)),
                 precipitation_daily_avg |->
                    Append(df_data.precipitation_daily_avg, np_mean(years_data)),
                 precipitation_min |->
                    Append(df_data.precipitation_min, np_min(years_data)),
                 precipitation_max |->
                    Append(df_data.precipitation_max, np_max(years_data))]
           /\ windows' = Append(windows,
                [lo |-> last_ind, hi |-> last_ind + Len(years_data),
                 days |-> days, year |-> i + packet.year_start])
           /\ last_ind' = days + last_ind
    /\ i' = i + 1
    /\ UNCHANGED <<pc, tz, packet, dates, response, precip, result, error, apiCalls>>

\* a variant that fills an empty window's row with not-a-number and goes on
loop_body_empty_window_kept ==
    /\ pc = "loop"
    /\ i < loop_count(packet.year_start, packet.year_end)
    /\ LET days == days_of(i)
           years_data == slice(precip, last_ind, days + last_ind)
       IN  /\ Len(years_data) = 0
           /\ df_data' =
                [year |-> Append(df_data.year, i + packet.year_start),
                 precipitation_sum |-> Append(df_data.precipitation_sum, NaN),
                 precipitation_daily_avg |->
                    Append(df_data.precipitation_daily_avg, NaNMean),
                 precipitation_min |-> Append(df_data.precipitation_min, NaN),
                 precipitation_max |-> Append(df_data.precipitation_max, NaN)]
           /\ windows' = Append(windows,
                [lo |-> last_ind, hi |-> last_ind,
                 days |-> days, year |-> i + packet.year_start])
           /\ last_ind' = days + last_ind
    /\ i' = i + 1
    /\ UNCHANGED <<pc, tz, packet, dates, response, precip, result, error, apiCalls>>

\* one iteration whose window is empty: np.min raises ValueError after the
\* year, the sum and the mean were appended; the exception leaves the call
loop_body_ValueError ==
    /\ pc = "loop"
    /\ i < loop_count(packet.year_start, packet.year_end)
    /\ LET days == days_of(i)
           years_data == slice(precip, last_ind, days + last_ind)
       IN  /\ Len(years_data) = 0
           /\ df_data' =
                [df_data EXCEPT
                    !.year = Append(@, i + packet.year_start),
                    !.precipitation_sum = Append(@, np_sum(years_data)),
                    !.precipitation_daily_avg = Append(@, np_mean(years_data))]
           /\ windows' = Append(windows,
                [lo |-> last_ind, hi |-> last_ind,
                 days |-> days, year |-> i + packet.year_start])
    /\ error' = "ValueError"
    /\ pc' = "raised"
    /\ UNCHANGED <<tz, packet, dates, response, precip, last_ind, i, result, apiCalls>>

\* the loop is over: the DataFrame is built from the column lists and returned
return_dataframe ==
    /\ pc = "loop"
    /\ i >= loop_count(packet.year_start, packet.year_end)
    /\ result' = DataFrame(df_data)
    /\ pc' = "returned"
    /\ UNCHANGED <<tz, packet, dates, response, precip, last_ind, i, df_data,
                   error, apiCalls, windows>>

Next ==
    \/ get_yearly_precipitation
    \/ weather_api
    \/ weather_api_exception
    \/ loop_body
    \/ loop_body_ValueError
    \/ return_dataframe

Spec == Init /\ [][Next]_vars

(***************************************************************************)
(* Vocabulary of the properties.                                           *)
(***************************************************************************)
Terminal == pc \in {"returned", "raised"}

FetchedOk == response = "ok"

YearStart == packet.year_start
YearEnd == packet.year_end

\* the leap-year rule and the day count as the specification states them
LeapYear(y) == (y % 4 = 0) /\ ((y % 100 # 0) \/ (y % 400 = 0))
DayCount(y) == IF LeapYear(y) THEN 366 ELSE 365

\* calendar days from Jan 1 of year a to Dec 31 of year b: the sum of the
\* per-year day counts
RECURSIVE CalendarDays(_, _)
CalendarDays(a, b) == IF b < a THEN 0 ELSE CalendarDays(a, b - 1) + DayCount(b)

\* the year a 1-based position of a full-length series belongs to
YearOfPosition(p) ==
    CHOOSE y \in YearStart..YearEnd :
        CalendarDays(YearStart, y - 1) < p /\ p <= CalendarDays(YearStart, y)

\* 0-based start of the window of iteration k when the program's own window
\* lengths are added up
RECURSIVE WindowStart(_)
WindowStart(k) == IF k = 0 THEN 0 ELSE WindowStart(k - 1) + days_of(k - 1)

NaNPlaces == { k \in 1..Len(precip) : precip[k] = NaN }

MeanIsNaN(m) == m.den = 0

RowIsAllNaN(r) ==
    /\ r.precipitation_sum = NaN
    /\ MeanIsNaN(r.precipitation_daily_avg)
    /\ r.precipitation_min = NaN
    /\ r.precipitation_max = NaN

RowHasNoNaN(r) ==
    /\ r.precipitation_sum # NaN
    /\ ~MeanIsNaN(r.precipitation_daily_avg)
    /\ r.precipitation_min # NaN
    /\ r.precipitation_max # NaN

\* sum of a[lo..hi], folded from the left in blocks of three
RECURSIVE SumOver(_, _, _)
SumOver(a, lo, hi) ==
    IF lo > hi THEN 0
    ELSE IF hi - lo < 3
         THEN a[lo] + (IF lo + 1 <= hi THEN a[lo + 1] ELSE 0)
                    + (IF lo + 2 <= hi THEN a[lo + 2] ELSE 0)
         ELSE LET third == (hi - lo + 1) \div 3
              IN  SumOver(a, lo, lo + third - 1)
                    + SumOver(a, lo + third, lo + 2 * third - 1)
                    + SumOver(a, lo + 2 * third, hi)

(***************************************************************************)
(* C1.                                                                     *)
(***************************************************************************)
\* C1 (partition completeness): when a call on a range year_start <= year_end
\* has returned and the fetched series holds exactly the calendar days of the
\* range, the windows taken by the loop start at 0, each starts where the
\* previous one ended, and the last one ends at the end of the series, so
\* that their concatenation is the whole series.
C1_PartitionCompleteness ==
    (pc = "returned" /\ FetchedOk /\ YearStart <= YearEnd
        /\ Len(precip) = CalendarDays(YearStart, YearEnd))
    => /\ Len(windows) = YearEnd - YearStart + 1
       /\ windows[1].lo = 0
       /\ \A k \in 1..(Len(windows) - 1) : windows[k + 1].lo = windows[k].hi
       /\ windows[Len(windows)].hi = Len(precip)

(***************************************************************************)
(* C2.                                                                     *)
(***************************************************************************)
\* C2 (windowing correctness): the window length the loop used for each year
\* is 366 when the year is a leap year and 365 otherwise.
C2_WindowingCorrectness ==
    \A k \in 1..Len(windows) : windows[k].days = DayCount(windows[k].year)

(***************************************************************************)
(* C3.                                                                     *)
(***************************************************************************)
\* C3 (end-to-end scenario): the call for 2000..2001 on a 731-element series
\* of ones returns the rows {2000, 366, 1, 1, 1} and {2001, 365, 1, 1, 1}.
C3_EndToEnd2000To2001 ==
    (pc = "returned" /\ FetchedOk /\ YearStart = 2000 /\ YearEnd = 2001
        /\ Len(precip) = 731 /\ \A k \in 1..Len(precip) : precip[k] = 1)
    => /\ Len(result.rows) = 2
       /\ result.rows[1].year = 2000
       /\ result.rows[1].precipitation_sum = 366
       /\ result.rows[1].precipitation_daily_avg.num
            = result.rows[1].precipitation_daily_avg.den
       /\ result.rows[1].precipitation_min = 1
       /\ result.rows[1].precipitation_max = 1
       /\ result.rows[2].year = 2001
       /\ result.rows[2].precipitation_sum = 365
       /\ result.rows[2].precipitation_daily_avg.num
            = result.rows[2].precipitation_daily_avg.den
       /\ result.rows[2].precipitation_min = 1
       /\ result.rows[2].precipitation_max = 1

(***************************************************************************)
(* C4.                                                                     *)
(***************************************************************************)
\* C4 as claimed (length-mismatch detection): a call on a range
\* year_start <= year_end whose fetched series differs in length from the
\* sum of the per-year day counts ends in a SeriesLengthMismatch failure and
\* hands back no table.
C4_LengthMismatchDetected ==
    (Terminal /\ FetchedOk /\ YearStart <= YearEnd
        /\ Len(precip) # CalendarDays(YearStart, YearEnd))
    => (pc = "raised" /\ error = "SeriesLengthMismatch")

\* some year's window starts at or beyond the end of the series
SomeWindowEmpty ==
    \E k \in 0..(loop_count(YearStart, YearEnd) - 1) : WindowStart(k) >= Len(precip)

\* C4 as amended (no length check): whatever the length of the fetched
\* series, no SeriesLengthMismatch failure occurs.  Every window is cut at
\* the end of the series and surplus days are ignored.  The call returns a
\* table with one row per requested year, computed from the possibly
\* truncated windows, unless some year's window is empty; then, and only
\* then, it ends in the ValueError of the min reduction with no table.
C4_LengthMismatchTruncatesSilently ==
    (Terminal /\ FetchedOk)
    => /\ error \in {"none", "ValueError"}
       /\ (pc = "raised") <=> SomeWindowEmpty
       /\ (pc = "raised") => (error = "ValueError" /\ result = EmptyDataFrame)
       /\ (pc = "returned") =>
            /\ error = "none"
            /\ Len(result.rows) = loop_count(YearStart, YearEnd)
            /\ \A k \in 1..Len(windows) :
                /\ windows[k].lo = WindowStart(k - 1)
                /\ windows[k].hi = Min2(WindowStart(k), Len(precip))
                /\ windows[k].hi > windows[k].lo
                /\ result.rows[k].precipitation_sum =
                     (IF \E j \in (windows[k].lo + 1)..windows[k].hi : precip[j] = NaN
                      THEN NaN
                      ELSE SumOver(precip, windows[k].lo + 1, windows[k].hi))

\* a table was returned although a year's window was cut short by the end of
\* the series
C4_TruncatedWindowReturned ==
    /\ pc = "returned" /\ FetchedOk
    /\ Len(precip) # CalendarDays(YearStart, YearEnd)
    /\ \E k \in 1..Len(windows) : windows[k].hi - windows[k].lo < windows[k].days
    /\ Len(result.rows) = 2

(***************************************************************************)
(* C5.                                                                     *)
(***************************************************************************)
\* C5 as claimed (fetch failure is explicit): a call whose fetch ended in an
\* error ends in a FetchFailed failure, never in a returned table.
C5_FetchFailureExplicit ==
    (Terminal /\ response = "exception")
    => (pc = "raised" /\ error = "FetchFailed")

\* C5 as amended (fetch failure is silent): a call whose single fetch ended in
\* an error returns the empty table (no columns, no rows) as its normal
\* result; no failure reaches the caller, nothing is sliced, and the fetch is
\* not tried again.
C5_FetchFailureReturnsEmptyTable ==
    (response = "exception")
    => /\ pc = "returned"
       /\ error = "none"
       /\ result = EmptyDataFrame
       /\ apiCalls = 1
       /\ windows = << >>

\* a failed fetch on a well-ordered range, answered with the empty table
C5_FailedFetchReturned ==
    /\ response = "exception" /\ pc = "returned"
    /\ YearStart = 2000 /\ YearEnd = 2001
    /\ result.rows = << >>

(***************************************************************************)
(* C6.                                                                     *)
(***************************************************************************)
\* C6 as claimed (range validation precedes the fetch): a call with
\* year_start > year_end never invokes the fetch and ends in an InvalidRange
\* failure.
C6_RangeValidationPrecedesFetch ==
    (pc # "idle" /\ YearStart > YearEnd)
    => /\ apiCalls = 0
       /\ Terminal => (pc = "raised" /\ error = "InvalidRange")

\* C6 as amended (no range validation): a call with year_start > year_end is
\* not rejected: the fetch is invoked exactly once, for Jan 1 of year_start
\* to Dec 31 of year_end, no window is taken, and the call returns a table
\* without rows (and no failure), whether the fetch fails or succeeds.
C6_InvertedRangeIsFetched ==
    (pc # "idle" /\ YearStart > YearEnd)
    => /\ error = "none"
       /\ pc # "raised"
       /\ windows = << >>
       /\ packet.start_date = <<YearStart, 1, 1>>
       /\ packet.end_date = <<YearEnd, 12, 31>>
       /\ (pc = "request") <=> (apiCalls = 0)
       /\ Terminal => (apiCalls = 1 /\ result.rows = << >>)

\* the call for 2020..2019 after a successful fetch: one invocation, a table
\* with the five columns and no row
C6_InvertedRangeReturned ==
    /\ pc = "returned" /\ FetchedOk
    /\ YearStart = 2020 /\ YearEnd = 2019
    /\ apiCalls = 1
    /\ result = [columns |-> ColumnNames, rows |-> << >>]

(***************************************************************************)
(* C7.                                                                     *)
(***************************************************************************)
\* C7 (row count and order): after a successful fetch on a range
\* year_start <= year_end, the returned table has year_end - year_start + 1
\* rows and row k (0-based) is the row of year_start + k; a series that holds
\* at least the calendar days of the range always yields such a table.
C7_RowCountAndOrder ==
    /\ (pc = "returned" /\ FetchedOk /\ YearStart <= YearEnd)
        => /\ Len(result.rows) = YearEnd - YearStart + 1
           /\ \A k \in 1..Len(result.rows) :
                result.rows[k].year = YearStart + (k - 1)
    /\ (Terminal /\ FetchedOk /\ YearStart <= YearEnd
            /\ Len(precip) >= CalendarDays(YearStart, YearEnd))
        => pc = "returned"

\* a three-year table
C7_ThreeRowsReturned ==
    /\ pc = "returned" /\ FetchedOk
    /\ YearStart = 2000 /\ YearEnd = 2002
    /\ Len(precip) = CalendarDays(2000, 2002)
    /\ Len(result.rows) = 3
    /\ result.rows[3].year = 2002

(***************************************************************************)
(* C8.                                                                     *)
(***************************************************************************)
\* C8 (single round trip): a call never invokes the fetch more than once, a
\* finished call has invoked it exactly once, and whenever a window has been
\* taken or a column filled, that one invocation has already returned.
C8_SingleRoundTrip ==
    /\ apiCalls <= 1
    /\ Terminal => apiCalls = 1
    /\ (windows # << >> \/ last_ind > 0 \/ i > 0 \/ df_data # EmptyColumns)
        => (apiCalls = 1 /\ FetchedOk)
    /\ (pc = "request") => (apiCalls = 0 /\ response = "none")

\* three years reduced after one invocation
C8_ThreeYearsOneCall ==
    /\ pc = "returned" /\ FetchedOk
    /\ Len(windows) = 3
    /\ apiCalls = 1

(***************************************************************************)
(* C9.                                                                     *)
(***************************************************************************)
\* C9 (not-a-number stays in its year): when the fetched series holds exactly
\* the calendar days of the range and exactly one not-a-number value, on a
\* day of year y, the returned row of y has not-a-number sum, mean, min and
\* max, and no other row has a not-a-number statistic.
C9_NaNLocalToOneYear ==
    (pc = "returned" /\ FetchedOk /\ YearStart <= YearEnd
        /\ Len(precip) = CalendarDays(YearStart, YearEnd)
        /\ Cardinality(NaNPlaces) = 1)
    => LET p == CHOOSE k \in NaNPlaces : TRUE
           y == YearOfPosition(p)
       IN  \A k \in 1..Len(result.rows) :
              IF result.rows[k].year = y
              THEN RowIsAllNaN(result.rows[k])
              ELSE RowHasNoNaN(result.rows[k])

====
